---- MODULE Spec2Model ----
(***************************************************************************)
(* Model of the two-stage RAG pipeline of aws-rag-agent:                   *)
(*   main.py           CLI entry point and run_agentic_rag                 *)
(*   agents/planner.py initialize_planner_agent, safe_validate_plan        *)
(*   agents/synthesizer.py initialize_synthesizer_agent                    *)
(*   schemas/planner_schema.py PlannerPlan                                 *)
(* The language model, the retrieval tool and the ingestion step are       *)
(* external collaborators: their results are nondeterministic choices.     *)
(***************************************************************************)
EXTENDS Integers, Sequences, FiniteSets, TLC

----------------------------------------------------------------------------
(* Bounds *)

\* longest JSON list the language model emits for sub_queries
MaxLen == 3

\* most calls of retriever_tool the Synthesizer's model requests in one run
MaxToolCalls == 2

----------------------------------------------------------------------------
(* JSON values of a raw mapping.  A value is a record [kind, str, elems]:   *)
(* kind is the JSON type ("missing" = the key is not in the mapping),      *)
(* str the text of a string, elems the items of a list.                    *)

QueryTypes == {"definition", "general"}

SubQueryStrings == {"s3 definition", "s3 use cases"}

Scalar(k, s) == [kind |-> k, str |-> s]

Value(k, s, l) == [kind |-> k, str |-> s, elems |-> l]

Missing == Value("missing", "", <<>>)

\* items a JSON list may hold: strings and a non-string (an integer)
ListItems == {Scalar("str", s) : s \in SubQueryStrings} \cup {Scalar("int", "")}

SeqsUpTo(S, n) == UNION {[1..k -> S] : k \in 0..n}

JsonValues ==
    {Missing, Value("null", "", <<>>), Value("int", "", <<>>),
     Value("dict", "", <<>>)}
    \cup {Value("str", s, <<>>) : s \in QueryTypes \cup {"s3 definition"}}
    \cup {Value("list", "", l) : l \in SeqsUpTo(ListItems, MaxLen)}

\* values the model is seen to give query_type
QueryTypeValues ==
    {v \in JsonValues : v.kind # "list"} \cup {Value("list", "", <<>>)}

\* a third key the schema does not declare
ExtraValues == {Missing, Value("str", "s3 definition", <<>>)}

RawMappings ==
    [query_type : QueryTypeValues, sub_queries : JsonValues, extra : ExtraValues]

----------------------------------------------------------------------------
(* schemas/planner_schema.py *)

IsStr(v) == v.kind = "str"

\* variant: the items of the list are not checked (List instead of List[str])
IsListOfAny(v) == v.kind = "list"

IsListOfStr(v) ==
    /\ v.kind = "list"
    /\ \A i \in 1..Len(v.elems) : v.elems[i].kind = "str"

\* the field-level mismatches pydantic collects for one raw mapping
FieldErrors(raw) ==
    {f \in {"query_type"} : ~IsStr(raw.query_type)}
    \cup {f \in {"sub_queries"} : ~IsListOfStr(raw.sub_queries)}

NoPlan == [tag |-> "None", query_type |-> "", sub_queries |-> <<>>]

Clip(l, n) == IF Len(l) > n THEN SubSeq(l, 1, n) ELSE l

\* variant: a schema that keeps at most one sub-query
PlannerPlanClipped(raw) ==
    IF FieldErrors(raw) = {}
    THEN [tag |-> "Plan",
          query_type |-> raw.query_type.str,
          sub_queries |-> Clip([i \in 1..Len(raw.sub_queries.elems) |->
                                   raw.sub_queries.elems[i].str], 1)]
    ELSE [tag |-> "ValidationError", query_type |-> "", sub_queries |-> <<>>]

\* PlannerPlan(**raw): the typed object, or an error when any field mismatches;
\* keys the schema does not declare are ignored
PlannerPlan(raw) ==
    IF FieldErrors(raw) = {}
    THEN [tag |-> "Plan",
          query_type |-> raw.query_type.str,
          sub_queries |-> [i \in 1..Len(raw.sub_queries.elems) |->
                              raw.sub_queries.elems[i].str]]
    ELSE [tag |-> "ValidationError", query_type |-> "", sub_queries |-> <<>>]

(* agents/planner.py *)

\* safe_validate_plan: the plan; None when PlannerPlan raised
safe_validate_plan(raw) ==
    LET plan == PlannerPlan(raw)
    IN IF plan.tag = "Plan" THEN plan ELSE NoPlan

----------------------------------------------------------------------------
(* State *)

VARIABLES
    pc,                \* position of the program / state of the Orchestrator
    env,               \* GROQ_API_KEY set, vector store directory present
    query,             \* <<>> until read from standard input, then <<text>>
    state,             \* session state: planner_plan and final_response
    planner_out,       \* what the Planner's model call returned
    validated,         \* the Planner's output passed PlannerPlan
    tool_calls,        \* number of retriever_tool calls
    retriever_content, \* what each retriever_tool call returned
    error,             \* the exception that ended the run, "none" otherwise
    log,               \* records written by logger.error / logger.critical
    stdout,            \* what print() wrote
    raw_data,          \* argument of safe_validate_plan
    result             \* value safe_validate_plan returned

pipeline_vars ==
    <<pc, env, query, state, planner_out, validated, tool_calls,
      retriever_content, error, log, stdout>>

validator_vars == <<raw_data, result>>

vars == <<pipeline_vars, validator_vars>>

Queries == {"What is Amazon S3?", "What's the weather today?"}

Refusal == "This information is not available in the provided AWS RAG guide"

\* texts the Synthesizer's model may give as its final response
Answers == {Refusal, "S3 is object storage (Source: [Storage])",
            "S3 is a database"}

\* what retriever_tool may return: nothing, or matching text
Contents == {"", "segment"}

Absent == [tag |-> "missing", text |-> ""]

Text(t) == [tag |-> "str", text |-> t]

MissingPlan == [tag |-> "missing", query_type |-> "", sub_queries |-> <<>>]

EmptyState == [planner_plan |-> MissingPlan, final_response |-> Absent]

Pending == [tag |-> "Pending", query_type |-> "", sub_queries |-> <<>>]

NoOutput == [kind |-> "none", raw |-> [query_type |-> Missing,
                                      sub_queries |-> Missing,
                                      extra |-> Missing]]

Out(l, p, t) == [line |-> l, plan |-> p, text |-> t]

Printed(l) == \E i \in 1..Len(stdout) : stdout[i].line = l

Logged(m) == \E i \in 1..Len(log) : log[i] = m

PipelineInit ==
    /\ pc = "main"
    /\ env \in [api_key : BOOLEAN, vector_db : BOOLEAN]
    /\ query = <<>>
    /\ state = EmptyState
    /\ planner_out = NoOutput
    /\ validated = FALSE
    /\ tool_calls = 0
    /\ retriever_content = <<>>
    /\ error = "none"
    /\ log = <<>>
    /\ stdout = <<>>

Init ==
    /\ PipelineInit
    /\ raw_data = NoOutput.raw
    /\ result = Pending

----------------------------------------------------------------------------
(* main.py: CLI entry point *)

\* conditional ingestion: create_vector_store runs only when the vector
\* store is absent; its failure ends the process with exit status 1
MainIngestion ==
    /\ pc = "main"
    /\ IF env.vector_db
       THEN /\ stdout' = Append(stdout, Out("Skipping ingestion", MissingPlan, ""))
            /\ pc' = "input"
       ELSE \/ /\ stdout' = stdout
                     \o <<Out("Starting ingestion", MissingPlan, ""),
                          Out("Ingestion completed", MissingPlan, "")>>
               /\ pc' = "input"
            \/ /\ stdout' = stdout
                     \o <<Out("Starting ingestion", MissingPlan, ""),
                          Out("Critical Error during ingestion", MissingPlan, "")>>
               /\ pc' = "exit1"
    /\ UNCHANGED <<env, query, state, planner_out, validated, tool_calls,
                   retriever_content, error, log>>
    /\ UNCHANGED validator_vars

\* query = input('enter query: '), then asyncio.run(run_agentic_rag(query))
ReadQuery ==
    /\ pc = "input"
    /\ \E q \in Queries : query' = <<q>>
    /\ pc' = "setup_planner"
    /\ UNCHANGED <<env, state, planner_out, validated, tool_calls,
                   retriever_content, error, log, stdout>>
    /\ UNCHANGED validator_vars

\* an interrupt while input() waits is outside every try block
InterruptInput ==
    /\ pc = "input"
    /\ pc' = "Crashed"
    /\ error' = "KeyboardInterrupt"
    /\ UNCHANGED <<env, query, state, planner_out, validated, tool_calls,
                   retriever_content, log, stdout>>
    /\ UNCHANGED validator_vars

\* an exception of setup_orchestrator leaves run_agentic_rag (it is raised
\* before the try block) and is caught by the entry point
StartupFailure(e, m) ==
    /\ pc' = "StartupFailed"
    /\ error' = e
    /\ log' = Append(log, m)
    /\ stdout' = Append(stdout, Out("Fatal Startup Error", MissingPlan, e))

(* agents/planner.py *)

\* initialize_planner_agent: credential check, then Agent construction
InitializePlannerAgent ==
    /\ pc = "setup_planner"
    /\ IF ~env.api_key
       THEN StartupFailure("EnvironmentError", "GROQ_API_KEY is missing")
       ELSE \/ /\ pc' = "setup_synthesizer"
               /\ UNCHANGED <<error, log, stdout>>
            \/ StartupFailure("RuntimeError",
                              "Failed to initialize Planner Agent component")
    /\ UNCHANGED <<env, query, state, planner_out, validated, tool_calls,
                   retriever_content>>
    /\ UNCHANGED validator_vars

(* agents/synthesizer.py *)

\* initialize_synthesizer_agent: credential check, then Agent construction
InitializeSynthesizerAgent ==
    /\ pc = "setup_synthesizer"
    /\ IF ~env.api_key
       THEN StartupFailure("EnvironmentError", "GROQ_API_KEY is missing")
       ELSE \/ /\ pc' = "create_session"
               /\ UNCHANGED <<error, log, stdout>>
            \/ StartupFailure("RuntimeError",
                              "Critical error during Synthesizer Agent setup")
    /\ UNCHANGED <<env, query, state, planner_out, validated, tool_calls,
                   retriever_content>>
    /\ UNCHANGED validator_vars

(* main.py: run_agentic_rag *)

\* create_session gives the run an empty session state
CreateSession ==
    /\ pc = "create_session"
    /\ state' = EmptyState
    /\ pc' = "Created"
    /\ UNCHANGED <<env, query, planner_out, validated, tool_calls,
                   retriever_content, error, log, stdout>>
    /\ UNCHANGED validator_vars

\* the query is submitted to the runner: the Planner stage is invoked
StartWorkflow ==
    /\ pc = "Created"
    /\ stdout' = Append(stdout, Out("Starting Agentic Workflow", MissingPlan, ""))
    /\ pc' = "PlannerRunning"
    /\ UNCHANGED <<env, query, state, planner_out, validated, tool_calls,
                   retriever_content, error, log>>
    /\ UNCHANGED validator_vars

\* variant: the except branch logs and falls through to the final output
StageFailureNoReturn(e) ==
    /\ error' = e
    /\ log' = Append(log, "Execution Error")
    /\ pc' = "SynthesizerDone"
    /\ UNCHANGED stdout

\* variant: the except branch also prints the placeholder answer
StageFailurePlaceholder(e) ==
    /\ error' = e
    /\ log' = Append(log, "Execution Error")
    /\ pc' = "Error"
    /\ stdout' = Append(stdout, Out("FINAL ANSWER", MissingPlan,
                                    "No response generated."))

\* except Exception: logger.error("Execution Error ..."); return
StageFailure(e) ==
    /\ error' = e
    /\ log' = Append(log, "Execution Error")
    /\ pc' = "Error"
    /\ UNCHANGED stdout

\* the Planner's model call: JSON text, an empty response, or a failure
PlannerModelCall ==
    /\ pc = "PlannerRunning"
    /\ \/ /\ \E raw \in RawMappings : planner_out' = [kind |-> "json", raw |-> raw]
          /\ pc' = "PlannerValidating"
          /\ UNCHANGED <<error, log, stdout>>
       \/ /\ planner_out' = [planner_out EXCEPT !.kind = "empty"]
          /\ pc' = "PlannerDone"
          /\ UNCHANGED <<error, log, stdout>>
       \/ /\ planner_out' = planner_out
          /\ StageFailure("ModelError")
    /\ UNCHANGED <<env, query, state, validated, tool_calls, retriever_content>>
    /\ UNCHANGED validator_vars

\* variant: no output_schema, the output is stored as it came
PlannerSaveOutputUnchecked ==
    /\ pc = "PlannerValidating"
    /\ state' = [state EXCEPT !.planner_plan =
                     [tag |-> "Plan",
                      query_type |-> planner_out.raw.query_type.str,
                      sub_queries |-> <<>>]]
    /\ pc' = "PlannerDone"
    /\ UNCHANGED <<env, query, planner_out, validated, tool_calls,
                   retriever_content, error, log, stdout>>
    /\ UNCHANGED validator_vars

\* output_schema=PlannerPlan, output_key="planner_plan": the output is
\* validated against the schema and only then written to session state
PlannerSaveOutput ==
    /\ pc = "PlannerValidating"
    /\ LET plan == PlannerPlan(planner_out.raw)
       IN IF plan.tag = "Plan"
          THEN /\ state' = [state EXCEPT !.planner_plan = plan]
               /\ validated' = TRUE
               /\ pc' = "PlannerDone"
               /\ UNCHANGED <<error, log, stdout>>
          ELSE /\ StageFailure("ValidationError")
               /\ UNCHANGED <<state, validated>>
    /\ UNCHANGED <<env, query, planner_out, tool_calls, retriever_content>>
    /\ UNCHANGED validator_vars

\* variant: the sub-agents run in parallel, the Synthesizer does not wait
SynthesizerStartSpeculative ==
    /\ pc \in {"PlannerRunning", "PlannerValidating", "PlannerDone"}
    /\ pc' = "SynthesizerRunning"
    /\ UNCHANGED <<env, query, state, planner_out, validated, tool_calls,
                   retriever_content, error, log, stdout>>
    /\ UNCHANGED validator_vars

\* second sub-agent of the SequentialAgent: {planner_plan} of the
\* instruction is injected from session state; a missing key is an error
SynthesizerStart ==
    /\ pc = "PlannerDone"
    /\ IF state.planner_plan.tag = "missing"
       THEN StageFailure("KeyError")
       ELSE /\ pc' = "SynthesizerRunning"
            /\ UNCHANGED <<error, log, stdout>>
    /\ UNCHANGED <<env, query, state, planner_out, validated, tool_calls,
                   retriever_content>>
    /\ UNCHANGED validator_vars

\* the Synthesizer's model asks for retriever_tool; the tool returns its
\* content or fails
RetrieverToolCall ==
    /\ pc = "SynthesizerRunning"
    /\ tool_calls < MaxToolCalls
    /\ tool_calls' = tool_calls + 1
    /\ \/ /\ \E c \in Contents : retriever_content' = Append(retriever_content, c)
          /\ UNCHANGED <<pc, error, log, stdout>>
       \/ /\ retriever_content' = retriever_content
          /\ StageFailure("ToolError")
    /\ UNCHANGED <<env, query, state, planner_out, validated>>
    /\ UNCHANGED validator_vars

\* variant: the Synthesizer's output_key is the Planner's key
SynthesizerModelCallPlannerKey ==
    /\ pc = "SynthesizerRunning"
    /\ \E a \in Answers :
          state' = [state EXCEPT !.planner_plan =
                       [tag |-> "Plan", query_type |-> a, sub_queries |-> <<>>]]
    /\ pc' = "SynthesizerDone"
    /\ UNCHANGED <<env, query, planner_out, validated, tool_calls,
                   retriever_content, error, log, stdout>>
    /\ UNCHANGED validator_vars

\* the Synthesizer's model gives its final response; output_key=
\* "final_response" stores its text, an empty response stores nothing
SynthesizerModelCall ==
    /\ pc = "SynthesizerRunning"
    /\ \/ /\ \E a \in Answers :
                state' = [state EXCEPT !.final_response = Text(a)]
          /\ pc' = "SynthesizerDone"
          /\ UNCHANGED <<error, log, stdout>>
       \/ /\ state' = state
          /\ pc' = "SynthesizerDone"
          /\ UNCHANGED <<error, log, stdout>>
       \/ /\ state' = state
          /\ StageFailure("ModelError")
    /\ UNCHANGED <<env, query, planner_out, validated, tool_calls,
                   retriever_content>>
    /\ UNCHANGED validator_vars

\* state.get('planner_plan'): None when the key is absent
GetPlan(st) ==
    IF st.planner_plan.tag = "missing" THEN NoPlan ELSE st.planner_plan

\* state.get("final_response", "No response generated.")
GetFinalResponse(st) ==
    IF st.final_response.tag = "missing"
    THEN "No response generated."
    ELSE st.final_response.text

\* observability and final output, after the event loop ended normally
FinalOutput ==
    /\ pc = "SynthesizerDone"
    /\ IF state # EmptyState
       THEN /\ stdout' = stdout
                  \o <<Out("Planner Result", GetPlan(state), ""),
                       Out("FINAL ANSWER", MissingPlan, GetFinalResponse(state))>>
            /\ log' = log
       ELSE /\ log' = Append(log, "Failed to retrieve final session state")
            /\ stdout' = stdout
    /\ pc' = "Reported"
    /\ UNCHANGED <<env, query, state, planner_out, validated, tool_calls,
                   retriever_content, error>>
    /\ UNCHANGED validator_vars

\* except KeyboardInterrupt around asyncio.run
KeyboardInterrupt ==
    /\ pc \in {"setup_planner", "setup_synthesizer", "create_session",
               "Created", "PlannerRunning", "PlannerValidating", "PlannerDone",
               "SynthesizerRunning", "SynthesizerDone"}
    /\ pc' = "Interrupted"
    /\ error' = "KeyboardInterrupt"
    /\ stdout' = Append(stdout, Out("Process interrupted by user", MissingPlan, ""))
    /\ UNCHANGED <<env, query, state, planner_out, validated, tool_calls,
                   retriever_content, log>>
    /\ UNCHANGED validator_vars

Next ==
    \/ MainIngestion
    \/ ReadQuery
    \/ InterruptInput
    \/ InitializePlannerAgent
    \/ InitializeSynthesizerAgent
    \/ CreateSession
    \/ StartWorkflow
    \/ PlannerModelCall
    \/ PlannerSaveOutput
    \/ SynthesizerStart
    \/ RetrieverToolCall
    \/ SynthesizerModelCall
    \/ FinalOutput
    \/ KeyboardInterrupt

Spec == Init /\ [][Next]_vars

----------------------------------------------------------------------------
(* The validation utility on its own: every raw mapping is an input *)

ValidatorInit ==
    /\ PipelineInit
    /\ env = [api_key |-> TRUE, vector_db |-> TRUE]
    /\ raw_data \in RawMappings
    /\ result = Pending

SafeValidatePlan ==
    /\ result = Pending
    /\ result' = safe_validate_plan(raw_data)
    /\ UNCHANGED raw_data
    /\ UNCHANGED pipeline_vars

ValidatorNext == SafeValidatePlan

ValidatorSpec == ValidatorInit /\ [][ValidatorNext]_vars

----------------------------------------------------------------------------
(* Properties *)

SynthesizerStates == {"SynthesizerRunning", "SynthesizerDone", "Reported"}

StageErrors == {"ModelError", "ValidationError", "KeyError", "ToolError"}

\* C1: the Synthesizer stage is running or has run, the retrieval tool has
\* been called, or an answer has been written, only after the Planner's
\* output passed validation against the schema and was written to session
\* state under planner_plan.
C1_StrictSequencing ==
    (\/ pc \in SynthesizerStates
     \/ tool_calls > 0
     \/ state.final_response.tag # "missing")
    => /\ validated
       /\ planner_out.kind = "json"
       /\ FieldErrors(planner_out.raw) = {}
       /\ state.planner_plan.tag = "Plan"

C1_Witness ==
    /\ pc = "SynthesizerRunning"
    /\ tool_calls > 0
    /\ validated

PlannerFailed ==
    \/ planner_out.kind = "json" /\ FieldErrors(planner_out.raw) # {}
    \/ planner_out.kind = "empty"

\* C2: when the Planner's output fails schema validation or no Plan is
\* produced, the Synthesizer never runs: the retrieval tool is not called,
\* no final_response is written, and the run leaves the Planner only to the
\* Error state (or by an interrupt).
C2_NoSynthesizerOnInvalidPlan ==
    PlannerFailed
    => /\ pc \notin SynthesizerStates
       /\ tool_calls = 0
       /\ state.final_response.tag = "missing"
       /\ pc \in {"PlannerValidating", "PlannerDone", "Error", "Interrupted"}

DefinitionWithoutSubQueries ==
    [query_type |-> Value("str", "definition", <<>>),
     sub_queries |-> Missing,
     extra |-> Missing]

C2_Witness ==
    /\ pc = "Error"
    /\ error = "ValidationError"
    /\ planner_out.kind = "json"
    /\ planner_out.raw = DefinitionWithoutSubQueries

\* C3: safe_validate_plan returns a Plan exactly for the mappings whose
\* query_type is a string and whose sub_queries is a list of strings (the
\* empty list included); for every other mapping, a missing field included,
\* it returns None, and it never raises.
C3_PlanIffWellTyped ==
    result # Pending
    => /\ result.tag \in {"Plan", "None"}
       /\ result.tag = "Plan"
            <=> /\ raw_data.query_type.kind = "str"
                /\ raw_data.sub_queries.kind = "list"
                /\ \A i \in DOMAIN raw_data.sub_queries.elems :
                       raw_data.sub_queries.elems[i].kind = "str"
       /\ (\/ raw_data.query_type.kind = "missing"
           \/ raw_data.sub_queries.kind = "missing") => result = NoPlan

C3_Witness ==
    /\ result.tag = "Plan"
    /\ result.sub_queries = <<>>
    /\ raw_data.extra # Missing

PlanExposed ==
    \E i \in 1..Len(stdout) :
        stdout[i].line = "Planner Result" /\ stdout[i].plan = state.planner_plan

AnswerExposed ==
    \E i \in 1..Len(stdout) :
        stdout[i].line = "FINAL ANSWER" /\ stdout[i].text = state.final_response.text

\* C4: when a run has ended, completed or in error, the Plan and the Answer
\* that were written are exposed, and the error is exposed when there is one;
\* a run that failed after the Plan was written exposes that Plan.
C4_PlanAndAnswerExposed ==
    pc \in {"Error", "Reported"}
    => /\ state.planner_plan.tag = "Plan" => PlanExposed
       /\ state.final_response.tag = "str" => AnswerExposed
       /\ error # "none" => Logged("Execution Error")

\* C5: the credential check and the stage construction happen before the
\* query is read, and when they fail no query has been read and the
\* pipeline is not run.
C5_ConfigurationBeforeQuery ==
    /\ query # <<>> => pc \notin {"setup_planner", "setup_synthesizer"}
    /\ pc = "StartupFailed"
         => /\ query = <<>>
            /\ ~Printed("Starting Agentic Workflow")

TraceProduced == Printed("Planner Result") \/ Printed("FINAL ANSWER")

\* C6 (as stated): the trace and final answer are printed only in states
\* where both the Plan and the Answer have been written.
C6_OutputOnlyWithPlanAndAnswer ==
    TraceProduced
    => /\ state.planner_plan.tag = "Plan"
       /\ state.final_response.tag = "str"

\* C6 (amended): the trace and final answer are printed only after the
\* sequence ran to its end with no exception and no interrupt, with the Plan
\* written; when no Answer was written the placeholder is printed in its
\* place.
C6_OutputOnlyAfterCompletion ==
    TraceProduced
    => /\ pc = "Reported"
       /\ error = "none"
       /\ state.planner_plan.tag = "Plan"
       /\ PlanExposed
       /\ state.final_response.tag = "missing"
            => \E i \in 1..Len(stdout) :
                   stdout[i] = Out("FINAL ANSWER", MissingPlan,
                                   "No response generated.")

C6_Witness ==
    /\ pc = "Reported"
    /\ state.final_response.tag = "missing"
    /\ state.planner_plan.tag = "Plan"
    /\ Printed("FINAL ANSWER")

\* C7: when every call of the retrieval tool returned empty content, the
\* Answer written under final_response is the fixed refusal sentence.
C7_RefusalOnEmptyRetrieval ==
    (/\ retriever_content # <<>>
     /\ \A i \in 1..Len(retriever_content) : retriever_content[i] = ""
     /\ state.final_response.tag = "str")
    => state.final_response.text = Refusal

C9_StageExceptionCaught ==
    error \in StageErrors
    => /\ pc = "Error"
       /\ Logged("Execution Error")
       /\ ~Printed("FINAL ANSWER")
       /\ ~Printed("Planner Result")

C9_Witness ==
    /\ pc = "Error"
    /\ error = "ToolError"
    /\ state.planner_plan.tag = "Plan"

\* C10: the Synthesizer writes final_response only; no step of the
\* Synthesizer stage changes planner_plan, the Answer is written on the
\* step that completes the Synthesizer, and once written it does not change.
C10_SynthesizerWritesOwnKey ==
    [][/\ pc = "SynthesizerRunning" => state'.planner_plan = state.planner_plan
       /\ state.final_response.tag = "str"
            => state'.final_response = state.final_response
       /\ state'.final_response # state.final_response
            => pc = "SynthesizerRunning" /\ pc' = "SynthesizerDone"]_vars

C10_Witness ==
    /\ pc = "Reported"
    /\ state.planner_plan.tag = "Plan"
    /\ state.final_response.tag = "str"
    /\ AnswerExposed

====
